---- MODULE Spec2Model ----
(***************************************************************************)
(* Model of the release-timeline aggregator of src/release_viz.py:         *)
(* get_release_branches, get_releases_for_version,                         *)
(* get_branch_creation_date, process_branch_data, generate_timeline_data   *)
(* (a thread pool fanning out one task per release branch) and the day     *)
(* spans computed by generate_visualization.                               *)
(*                                                                         *)
(* Python strings are sequences of one-character strings, None is the      *)
(* empty sequence, a present date d is <<d>> with d an integer number of   *)
(* ticks (TicksPerDay ticks make one day).                                 *)
(***************************************************************************)
EXTENDS Integers, Sequences, FiniteSets, TLC

\* ------------------------------------------------------------------ bounds
\* Longest list of branches the upstream repository returns.
MaxBranches == 2
\* Clock ticks in one day (the resolution of the modelled timestamps).
TicksPerDay == 2
\* Wall-clock time of the first run, in ticks.
Clock0 == 200
\* How far the wall clock may have advanced when a second run starts.
MaxClockAdvance == 1
\* Release branches of the many-branch repository.
NumPoolBranches == 9
\* Longest release registry of a direct get_releases_for_version call.
MaxReleases == 4
\* Latest creation time of a release of such a registry.
MaxCreated == 2
\* Longest list handed to a direct generate_visualization call.
MaxVizRecords == 2
\* gen.py: most builds listed by the pipeline, most commits in the history
MaxBuilds == 3
MaxHistory == 3
\* Days of the "now minus 30 days" default of get_branch_creation_date.
FallbackOffsetDays == 30

\* ------------------------------------------------------- optional values
None == <<>>
Some(x) == <<x>>
IsSome(o) == o # None
Val(o) == o[1]

\* ------------------------------------------------------------ str helpers
\* str.startswith
StartsWith(s, p) == Len(p) <= Len(s) /\ SubSeq(s, 1, Len(p)) = p

\* the `in` operator on two strings
Contains(s, sub) ==
    \E i \in 1..(Len(s) - Len(sub) + 1) : SubSeq(s, i, i + Len(sub) - 1) = sub

\* str.replace(old, new): every non-overlapping occurrence, left to right
RECURSIVE Replace(_, _, _)
Replace(s, old, new) ==
    IF Len(s) < Len(old) \/ Len(old) = 0 THEN s
    ELSE IF StartsWith(s, old)
         THEN new \o Replace(SubSeq(s, Len(old) + 1, Len(s)), old, new)
         ELSE <<Head(s)>> \o Replace(Tail(s), old, new)

Digits == <<"0", "1", "2", "3", "4", "5", "6", "7", "8", "9">>
IsDigit(c) == \E d \in 1..10 : Digits[d] = c
DigitVal(c) == (CHOOSE d \in 1..10 : Digits[d] = c) - 1
AllDigits(s) == Len(s) >= 1 /\ \A i \in 1..Len(s) : IsDigit(s[i])

\* re.match(r"^\d+\.\d+$", version)
MatchesVersion(s) ==
    \E i \in 2..(Len(s) - 1) :
        /\ s[i] = "."
        /\ AllDigits(SubSeq(s, 1, i - 1))
        /\ AllDigits(SubSeq(s, i + 1, Len(s)))

\* str.split(".")
RECURSIVE SplitDot(_)
SplitDot(s) ==
    IF \A i \in 1..Len(s) : s[i] # "." THEN <<s>>
    ELSE LET i == CHOOSE k \in 1..Len(s) :
                      s[k] = "." /\ \A j \in 1..(k - 1) : s[j] # "."
         IN <<SubSeq(s, 1, i - 1)>> \o SplitDot(SubSeq(s, i + 1, Len(s)))

\* int(n) of a string of decimal digits
RECURSIVE ParseInt(_)
ParseInt(s) ==
    IF Len(s) = 0 THEN 0
    ELSE 10 * ParseInt(SubSeq(s, 1, Len(s) - 1)) + DigitVal(s[Len(s)])

\* the sort key [int(n) for n in version.split(".")]
VersionKey(version) ==
    LET parts == SplitDot(version)
    IN [k \in 1..Len(parts) |-> ParseInt(parts[k])]

\* Python's < on two lists of integers (lexicographic)
RECURSIVE ListLess(_, _)
ListLess(a, b) ==
    IF Len(b) = 0 THEN FALSE
    ELSE IF Len(a) = 0 THEN TRUE
    ELSE IF Head(a) # Head(b) THEN Head(a) < Head(b)
    ELSE ListLess(Tail(a), Tail(b))

\* list.sort(key=...) on a list already decorated as <<key, item>> pairs:
\* stable, ascending by key.
RECURSIVE InsertByKey(_, _)
InsertByKey(sorted, p) ==
    IF Len(sorted) = 0 THEN <<p>>
    ELSE IF ListLess(p[1], sorted[Len(sorted)][1])
         THEN InsertByKey(SubSeq(sorted, 1, Len(sorted) - 1), p)
                  \o <<sorted[Len(sorted)]>>
         ELSE sorted \o <<p>>

RECURSIVE SortByKey(_)
SortByKey(pairs) ==
    IF Len(pairs) = 0 THEN <<>>
    ELSE InsertByKey(SortByKey(SubSeq(pairs, 1, Len(pairs) - 1)),
                     pairs[Len(pairs)])

Undecorate(pairs) == [k \in 1..Len(pairs) |-> pairs[k][2]]

\* ------------------------------------------------------------------ state
VARIABLES
    \* the upstream state: what GitHub, the local disk and the clock answer
    repo_branches,   \* repo.get_branches(): branch names, in the API's order
    upstream,        \* per branch name: which of its queries succeed
    registry,        \* repo.get_releases(): <<tag_name, created_at>> records
    local_mirror,    \* ../risingwave/.git exists
    clock,           \* datetime.now(), in ticks
    \* generate_timeline_data
    pc,              \* position of the main thread
    branches,        \* get_release_branches(): <<version, branch name>> tuples
    temp_dir,        \* TRUE when temp_dir is set (not None)
    repo_path,       \* "none", "local" or "temp"
    dir_exists,      \* the temporary directory is on disk
    dir_created,     \* number of directories created by mkdtemp
    dir_removed,     \* number of directories removed by rmtree
    max_workers,     \* size of the ThreadPoolExecutor (0: no pool)
    futures,         \* the submitted futures, in submission order
    yielded,         \* futures as_completed has already handed out
    release_data,    \* the list of records
    error,           \* the exception propagating out of the function
    \* a second run against the same upstream state
    run,             \* 1 or 2
    prev_result,     \* what the first run returned
    \* direct calls of the pure functions
    q_version,       \* argument of get_releases_for_version
    q_result,        \* its result
    viz_data,        \* argument of generate_visualization
    viz_out,         \* the day labels it draws, per record
    c_branch,        \* branch_name argument of get_branch_creation_date
    c_path,          \* its repo_path argument ("none": not given)
    c_result,        \* the date it returns
    \* gen.py
    builds,          \* the builds of the pipeline, newest first, all pages
    commit_history,  \* risingwave.get_commits(): the shas, newest first
    nightly_builds,  \* the list of <<date, commit>> tuples
    nightly_i,       \* i, the 0-based index into nightly_builds
    walk_pos,        \* number of commits the walk has taken from the history
    walk_reads       \* every index at which nightly_builds has been read

vars == <<repo_branches, upstream, registry, local_mirror, clock, pc, branches,
          temp_dir, repo_path, dir_exists, dir_created, dir_removed,
          max_workers, futures, yielded, release_data, error, run,
          prev_result, q_version, q_result, viz_data, viz_out, c_branch,
          c_path, c_result, builds, commit_history, nightly_builds, nightly_i,
          walk_pos, walk_reads>>

upstream_vars == <<repo_branches, upstream, registry, local_mirror>>
creation_vars == <<c_branch, c_path, c_result>>
walk_vars == <<builds, commit_history, nightly_builds, nightly_i, walk_pos,
               walk_reads>>
call_vars == <<q_version, q_result, viz_data, viz_out, creation_vars,
               walk_vars>>

\* ------------------------------------------------------------ test data
S_release == <<"r", "e", "l", "e", "a", "s", "e", "-">>
S_rc == <<"r", "c">>
S_single_node == <<"s", "i", "n", "g", "l", "e", "-", "n", "o", "d", "e">>
S_v == <<"v">>
S_dot == <<".">>

V_2_1 == <<"2", ".", "1">>
V_2_9 == <<"2", ".", "9">>
V_2_09 == <<"2", ".", "0", "9">>
V_2_10 == <<"2", ".", "1", "0">>

\* branch names the upstream repository may hold
BranchNames ==
    { S_release \o V_2_9, S_release \o V_2_10, S_release \o V_2_09,
      S_release \o <<"d", "o", "c", "s">> }

Tag(version, rest) == S_v \o version \o S_dot \o rest

\* the release registry of the timeline runs, newest first as the API lists it
MainRegistry ==
    << [tag_name |-> Tag(V_2_10, <<"0">>), created_at |-> 61],
       [tag_name |-> Tag(V_2_10, <<"0", "-">> \o S_rc \o <<"1">>), created_at |-> 58],
       [tag_name |-> Tag(V_2_9, <<"1">>), created_at |-> 57],
       [tag_name |-> Tag(V_2_9, <<"0", "-">> \o S_single_node), created_at |-> 55],
       [tag_name |-> Tag(V_2_9, <<"0">>), created_at |-> 54] >>

\* which queries of a branch succeed
AllOk == [git_ok |-> TRUE, api_ok |-> TRUE, has_commits |-> TRUE,
          rel_ok |-> TRUE, head_ok |-> TRUE]
Conditions ==
    { AllOk,
      [AllOk EXCEPT !.git_ok = FALSE],
      [AllOk EXCEPT !.git_ok = FALSE, !.has_commits = FALSE],
      [AllOk EXCEPT !.git_ok = FALSE, !.api_ok = FALSE],
      [AllOk EXCEPT !.rel_ok = FALSE],
      [AllOk EXCEPT !.head_ok = FALSE] }

\* commit dates of a branch in the upstream history, from its minor version
Minor(branch_name) == VersionKey(Replace(branch_name, S_release, <<>>))[2]
MergeBaseDate(branch_name) == 4 * Minor(branch_name) + 1
OldestCommitDate(branch_name) == 4 * Minor(branch_name) + 4
HeadCommitDate(branch_name) == 4 * Minor(branch_name) + 30

\* ------------------------------------------------- get_release_branches
RECURSIVE FilterBranches(_)
FilterBranches(names) ==
    IF Len(names) = 0 THEN <<>>
    ELSE LET name == Head(names)
             version == Replace(name, S_release, <<>>)
         IN (IF StartsWith(name, S_release) /\ MatchesVersion(version)
             THEN << <<version, name>> >> ELSE <<>>)
            \o FilterBranches(Tail(names))

get_release_branches ==
    LET found == FilterBranches(repo_branches)
    IN Undecorate(SortByKey(
           [k \in 1..Len(found) |-> <<VersionKey(found[k][1]), found[k]>>]))

\* --------------------------------------------- get_releases_for_version
ReleaseMatches_no_dot(version, tag_name) ==
    /\ StartsWith(tag_name, S_v \o version)
    /\ ~Contains(tag_name, S_rc)
    /\ ~Contains(tag_name, S_single_node)

ReleaseMatches(version, tag_name) ==
    /\ StartsWith(tag_name, S_v \o version \o S_dot)
    /\ ~Contains(tag_name, S_rc)
    /\ ~Contains(tag_name, S_single_node)

get_releases_for_version(version) ==
    LET found == SelectSeq(registry,
                           LAMBDA r : ReleaseMatches(version, r.tag_name))
    IN Undecorate(SortByKey(
           [k \in 1..Len(found) |-> << <<found[k].created_at>>, found[k] >>]))

\* --------------------------------------------- get_branch_creation_date
\* The git lookup (merge-base, then the date of that commit) succeeds when the
\* history has a merge-base and the repository at the path is there.
MirrorAt(path) ==
    CASE path = "temp" -> dir_exists
      [] path = "local" -> local_mirror
      [] OTHER -> FALSE

ActualRepoPath(path) ==
    IF path # "none" THEN path
    ELSE IF local_mirror THEN "local"
    ELSE "none"

GitLookupOk(branch_name, path) ==
    /\ ActualRepoPath(path) # "none"
    /\ MirrorAt(ActualRepoPath(path))
    /\ upstream[branch_name].git_ok

\* the sources tried in another order: the API before the git lookup
creation_source_api_first(branch_name, path) ==
    IF upstream[branch_name].api_ok
    THEN (IF upstream[branch_name].has_commits THEN "oldest_commit"
          ELSE "head_commit")
    ELSE IF GitLookupOk(branch_name, path) THEN "merge_base"
    ELSE "now"

\* which source the returned date comes from
creation_source(branch_name, path) ==
    IF GitLookupOk(branch_name, path) THEN "merge_base"
    ELSE IF ~upstream[branch_name].api_ok THEN "now"
    ELSE IF upstream[branch_name].has_commits THEN "oldest_commit"
    ELSE "head_commit"

get_branch_creation_date(branch_name, path) ==
    CASE creation_source(branch_name, path) = "merge_base" ->
             Some(MergeBaseDate(branch_name))
      [] creation_source(branch_name, path) = "oldest_commit" ->
             Some(OldestCommitDate(branch_name))
      [] creation_source(branch_name, path) = "head_commit" ->
             Some(HeadCommitDate(branch_name))
      [] OTHER -> Some(clock - FallbackOffsetDays * TicksPerDay)

\* ------------------------------------------------- process_branch_data
get_last_commit_in_branch(branch_name) == Some(HeadCommitDate(branch_name))

\* Returns [raised, result]: the exception of the release or head-commit query
\* leaves the worker; otherwise the record.
process_branch_data(branch_tuple, path) ==
    LET version == branch_tuple[1]
        name == branch_tuple[2]
    IN IF ~upstream[name].rel_ok \/ ~upstream[name].head_ok
       THEN [raised |-> TRUE, result |-> None]
       ELSE LET releases == get_releases_for_version(version)
                has == Len(releases) > 0
            IN [raised |-> FALSE,
                result |-> Some(
                  [version |-> version,
                   branch_name |-> name,
                   branch_creation |-> get_branch_creation_date(name, path),
                   first_release |->
                       IF has THEN Some(releases[1].created_at) ELSE None,
                   last_release |->
                       IF has THEN Some(releases[Len(releases)].created_at)
                       ELSE None,
                   last_commit |-> get_last_commit_in_branch(name),
                   first_release_tag |->
                       IF has THEN releases[1].tag_name ELSE None,
                   last_release_tag |->
                       IF has THEN releases[Len(releases)].tag_name
                       ELSE None])]

\* ---------------------------------------------- generate_timeline_data
Queued == [state |-> "queued", raised |-> FALSE, result |-> None]

Running == {i \in 1..Len(futures) : futures[i].state = "running"}
Finished == {i \in 1..Len(futures) : futures[i].state = "finished"}

\* the version sort of the returned list
CharCode(c) == IF IsDigit(c) THEN 48 + DigitVal(c) ELSE 46
SortReleaseData_as_text(data) ==
    Undecorate(SortByKey(
        [k \in 1..Len(data) |->
            <<[j \in 1..Len(data[k].version) |-> CharCode(data[k].version[j])],
              data[k]>>]))

SortReleaseData(data) ==
    Undecorate(SortByKey(
        [k \in 1..Len(data) |-> <<VersionKey(data[k].version), data[k]>>]))

\* branches = get_release_branches(), before the try block
ListBranches ==
    /\ pc = "start"
    /\ branches' = get_release_branches
    /\ pc' = "listed"
    /\ UNCHANGED <<upstream_vars, clock, temp_dir, repo_path, dir_exists,
                   dir_created, dir_removed, max_workers, futures, yielded,
                   release_data, error, run, prev_result, call_vars>>

\* the branch listing fails: the exception leaves before the try block
ListBranchesFails ==
    /\ pc = "start"
    /\ error' = "list"
    /\ pc' = "raised"
    /\ UNCHANGED <<upstream_vars, clock, branches, temp_dir, repo_path,
                   dir_exists, dir_created, dir_removed, max_workers, futures,
                   yielded, release_data, run, prev_result, call_vars>>

\* a local repository is there: use it
UseLocalMirror ==
    /\ pc = "listed"
    /\ local_mirror
    /\ repo_path' = "local"
    /\ pc' = "pool"
    /\ UNCHANGED <<upstream_vars, clock, branches, temp_dir, dir_exists,
                   dir_created, dir_removed, max_workers, futures, yielded,
                   release_data, error, run, prev_result, call_vars>>

\* temp_dir = tempfile.mkdtemp()
MakeTempDir ==
    /\ pc = "listed"
    /\ ~local_mirror
    /\ temp_dir' = TRUE
    /\ dir_exists' = TRUE
    /\ dir_created' = dir_created + 1
    /\ repo_path' = "temp"
    /\ pc' = "clone"
    /\ UNCHANGED <<upstream_vars, clock, branches, dir_removed, max_workers,
                   futures, yielded, release_data, error, run, prev_result,
                   call_vars>>

\* where a failed clone or fetch goes: check=True raises out of the try block,
\* into the finally block
OnMirrorFailure_continue == "pool"

OnMirrorFailure == "finally"

\* git clone --no-checkout
Clone ==
    /\ pc = "clone"
    /\ pc' = "fetch"
    /\ UNCHANGED <<upstream_vars, clock, branches, temp_dir, repo_path,
                   dir_exists, dir_created, dir_removed, max_workers, futures,
                   yielded, release_data, error, run, prev_result, call_vars>>

\* check=True: a failed clone raises CalledProcessError
CloneFails ==
    /\ pc = "clone"
    /\ error' = "clone"
    /\ pc' = OnMirrorFailure
    /\ UNCHANGED <<upstream_vars, clock, branches, temp_dir, repo_path,
                   dir_exists, dir_created, dir_removed, max_workers, futures,
                   yielded, release_data, run, prev_result, call_vars>>

\* git fetch --all
Fetch ==
    /\ pc = "fetch"
    /\ pc' = "pool"
    /\ UNCHANGED <<upstream_vars, clock, branches, temp_dir, repo_path,
                   dir_exists, dir_created, dir_removed, max_workers, futures,
                   yielded, release_data, error, run, prev_result, call_vars>>

FetchFails ==
    /\ pc = "fetch"
    /\ error' = "fetch"
    /\ pc' = OnMirrorFailure
    /\ UNCHANGED <<upstream_vars, clock, branches, temp_dir, repo_path,
                   dir_exists, dir_created, dir_removed, max_workers, futures,
                   yielded, release_data, run, prev_result, call_vars>>

\* the size the pool is created with
PoolSize_capped == IF Len(branches) > 8 THEN 8 ELSE Len(branches)

PoolSize == Len(branches)

\* ThreadPoolExecutor(max_workers=len(branches)); max_workers <= 0 is a ValueError
CreatePool ==
    /\ pc = "pool"
    /\ IF PoolSize <= 0
       THEN /\ error' = "pool"
            /\ pc' = "finally"
            /\ UNCHANGED max_workers
       ELSE /\ max_workers' = PoolSize
            /\ pc' = "submit"
            /\ UNCHANGED error
    /\ UNCHANGED <<upstream_vars, clock, branches, temp_dir, repo_path,
                   dir_exists, dir_created, dir_removed, futures, yielded,
                   release_data, run, prev_result, call_vars>>

\* executor.submit(process_branch_data, branch_tuple, repo_path), in list order
Submit ==
    /\ pc = "submit"
    /\ Len(futures) < Len(branches)
    /\ futures' = Append(futures, Queued)
    /\ pc' = IF Len(futures) + 1 = Len(branches) THEN "collect" ELSE "submit"
    /\ UNCHANGED <<upstream_vars, clock, branches, temp_dir, repo_path,
                   dir_exists, dir_created, dir_removed, max_workers, yielded,
                   release_data, error, run, prev_result, call_vars>>

\* a pool thread takes the oldest queued work item
CanStart(i) ==
    /\ futures[i].state = "queued"
    /\ \A j \in 1..(i - 1) : futures[j].state # "queued"
    /\ Cardinality(Running) < max_workers

WorkerStart(i) ==
    /\ CanStart(i)
    /\ futures' = [futures EXCEPT ![i].state = "running"]
    /\ UNCHANGED <<upstream_vars, clock, pc, branches, temp_dir, repo_path,
                   dir_exists, dir_created, dir_removed, max_workers, yielded,
                   release_data, error, run, prev_result, call_vars>>

\* the work item ends: the future holds the record or the exception
WorkerFinish(i) ==
    /\ futures[i].state = "running"
    /\ LET out == process_branch_data(branches[i], repo_path)
       IN futures' = [futures EXCEPT ![i] =
                         [state |-> "finished", raised |-> out.raised,
                          result |-> out.result]]
    /\ UNCHANGED <<upstream_vars, clock, pc, branches, temp_dir, repo_path,
                   dir_exists, dir_created, dir_removed, max_workers, yielded,
                   release_data, error, run, prev_result, call_vars>>

\* what the loop body does with one completed future
Collected(data, f) ==
    IF ~f.raised /\ IsSome(f.result) THEN Append(data, Val(f.result)) ELSE data

\* the exception of future.result() that `except Exception` lets through
Uncaught_reraise(f) == IF f.raised THEN "worker" ELSE "none"

Uncaught(f) == "none"

\* one iteration of `for future in as_completed(future_to_branch)`
Collect(i) ==
    /\ pc = "collect"
    /\ i \in Finished \ yielded
    /\ yielded' = yielded \cup {i}
    /\ IF Uncaught(futures[i]) # "none"
       THEN /\ error' = Uncaught(futures[i])
            /\ pc' = "shutdown"
            /\ UNCHANGED release_data
       ELSE /\ release_data' = Collected(release_data, futures[i])
            /\ UNCHANGED <<pc, error>>
    /\ UNCHANGED <<upstream_vars, clock, branches, temp_dir, repo_path,
                   dir_exists, dir_created, dir_removed, max_workers, futures,
                   run, prev_result, call_vars>>

\* an exception other than a worker's reaches the main thread inside the
\* `with` block (KeyboardInterrupt, a failing submit or progress bar)
Interrupt ==
    /\ pc \in {"submit", "collect"}
    /\ error' = "interrupt"
    /\ pc' = "shutdown"
    /\ UNCHANGED <<upstream_vars, clock, branches, temp_dir, repo_path,
                   dir_exists, dir_created, dir_removed, max_workers, futures,
                   yielded, release_data, run, prev_result, call_vars>>

\* a shutdown that does not wait for the work items
PoolDrained_no_wait == TRUE

\* leaving `with ThreadPoolExecutor`: shutdown(wait=True) returns once every
\* submitted work item has ended
PoolDrained == \A i \in 1..Len(futures) : futures[i].state = "finished"

ExitPool ==
    /\ \/ pc = "collect" /\ yielded = 1..Len(futures)
       \/ pc = "shutdown"
    /\ PoolDrained
    /\ pc' = "finally"
    /\ UNCHANGED <<upstream_vars, clock, branches, temp_dir, repo_path,
                   dir_exists, dir_created, dir_removed, max_workers, futures,
                   yielded, release_data, error, run, prev_result, call_vars>>

\* `if temp_dir:` of the finally block, which every exit of the try block runs
CleanupRuns_on_success == temp_dir /\ error = "none"

CleanupRuns == temp_dir

\* the finally block, then either the pending exception leaves the function or
\* the list is sorted and returned
Finally ==
    /\ pc = "finally"
    /\ IF CleanupRuns
       THEN dir_exists' = FALSE /\ dir_removed' = dir_removed + 1
       ELSE UNCHANGED <<dir_exists, dir_removed>>
    /\ IF error # "none"
       THEN pc' = "raised" /\ UNCHANGED release_data
       ELSE pc' = "returned" /\ release_data' = SortReleaseData(release_data)
    /\ UNCHANGED <<upstream_vars, clock, branches, temp_dir, repo_path,
                   dir_created, max_workers, futures, yielded, error, run,
                   prev_result, call_vars>>

\* ------------------------------------------------------------------ Spec
DistinctSeqs(S, n) ==
    {s \in UNION {[1..k -> S] : k \in 0..n} :
        \A i, j \in 1..Len(s) : i # j => s[i] # s[j]}

Range(s) == {s[i] : i \in 1..Len(s)}

IsReleaseBranch(name) ==
    StartsWith(name, S_release) /\ MatchesVersion(Replace(name, S_release, <<>>))

RunIdle ==
    /\ branches = <<>>
    /\ temp_dir = FALSE
    /\ repo_path = "none"
    /\ dir_exists = FALSE
    /\ dir_created = 0
    /\ dir_removed = 0
    /\ max_workers = 0
    /\ futures = <<>>
    /\ yielded = {}
    /\ release_data = <<>>
    /\ error = "none"

NoCreationCall ==
    /\ c_branch = None
    /\ c_path = "none"
    /\ c_result = None

NoWalk ==
    /\ builds = <<>>
    /\ commit_history = <<>>
    /\ nightly_builds = <<>>
    /\ nightly_i = 0
    /\ walk_pos = 0
    /\ walk_reads = {}

NoCalls ==
    /\ q_version = None
    /\ q_result = None
    /\ viz_data = <<>>
    /\ viz_out = None
    /\ NoCreationCall
    /\ NoWalk

Init ==
    /\ repo_branches \in DistinctSeqs(BranchNames, MaxBranches)
    /\ upstream \in [BranchNames -> Conditions]
    /\ \A n \in BranchNames :
           (n \notin Range(repo_branches) \/ ~IsReleaseBranch(n))
               => upstream[n] = AllOk
    /\ registry = MainRegistry
    /\ local_mirror \in BOOLEAN
    /\ clock = Clock0
    /\ pc = "start"
    /\ RunIdle
    /\ run = 1
    /\ prev_result = None
    /\ NoCalls

Next ==
    \/ ListBranches
    \/ ListBranchesFails
    \/ UseLocalMirror
    \/ MakeTempDir
    \/ Clone
    \/ CloneFails
    \/ Fetch
    \/ FetchFails
    \/ CreatePool
    \/ Submit
    \/ \E i \in 1..Len(futures) : WorkerStart(i)
    \/ \E i \in 1..Len(futures) : WorkerFinish(i)
    \/ \E i \in 1..Len(futures) : Collect(i)
    \/ Interrupt
    \/ ExitPool
    \/ Finally

Spec == Init /\ [][Next]_vars

\* ------------------------------------------------- two runs, same upstream
\* generate_timeline_data is called again, later, against the same upstream
Rerun ==
    /\ pc = "returned"
    /\ run = 1
    /\ run' = 2
    /\ prev_result' = Some(release_data)
    /\ clock' \in clock..(clock + MaxClockAdvance)
    /\ pc' = "start"
    /\ branches' = <<>>
    /\ temp_dir' = FALSE
    /\ repo_path' = "none"
    /\ dir_exists' = FALSE
    /\ dir_created' = 0
    /\ dir_removed' = 0
    /\ max_workers' = 0
    /\ futures' = <<>>
    /\ yielded' = {}
    /\ release_data' = <<>>
    /\ error' = "none"
    /\ UNCHANGED <<upstream_vars, call_vars>>

NextTwice == Next \/ Rerun

SpecTwice == Init /\ [][NextTwice]_vars

\* --------------------------------------------- a repository of many branches
\* str(n) for n >= 0
RECURSIVE DecimalStr(_)
DecimalStr(n) ==
    IF n < 10 THEN <<Digits[n + 1]>>
    ELSE DecimalStr(n \div 10) \o <<Digits[(n % 10) + 1]>>

PoolBranchName(i) == S_release \o <<"3", ".">> \o DecimalStr(i - 1)
PoolBranchNames == {PoolBranchName(i) : i \in 1..NumPoolBranches}

\* release-3.0 .. release-3.<n-1>; the head-commit query of every branch but
\* the first fails (the API's rate limit)
InitPool ==
    /\ repo_branches = [i \in 1..NumPoolBranches |-> PoolBranchName(i)]
    /\ upstream = [n \in PoolBranchNames |->
                      IF n = PoolBranchName(1) THEN AllOk
                      ELSE [AllOk EXCEPT !.head_ok = FALSE]]
    /\ registry = MainRegistry
    /\ local_mirror \in BOOLEAN
    /\ clock = Clock0
    /\ pc = "start"
    /\ RunIdle
    /\ run = 1
    /\ prev_result = None
    /\ NoCalls

SpecPool == InitPool /\ [][Next]_vars

\* ------------------------------- get_releases_for_version, called directly
T_2_1_0 == Tag(V_2_1, <<"0">>)
T_2_1_0_rc1 == Tag(V_2_1, <<"0", "-">> \o S_rc \o <<"1">>)
T_2_1_0_single_node == Tag(V_2_1, <<"0", "-">> \o S_single_node)
T_2_1_1 == Tag(V_2_1, <<"1">>)
T_2_10_0 == Tag(V_2_10, <<"0">>)
TagNames == {T_2_1_0, T_2_1_0_rc1, T_2_1_0_single_node, T_2_1_1, T_2_10_0}

Releases == [tag_name : TagNames, created_at : 1..MaxCreated]

InitReleases ==
    /\ registry \in {r \in UNION {[1..k -> Releases] : k \in 0..MaxReleases} :
                        \A i, j \in 1..Len(r) :
                            i # j => r[i].tag_name # r[j].tag_name}
    /\ q_version \in {Some(V_2_1), Some(V_2_10)}
    /\ q_result = None
    /\ repo_branches = <<>>
    /\ upstream = [n \in BranchNames |-> AllOk]
    /\ local_mirror = TRUE
    /\ clock = Clock0
    /\ pc = "query"
    /\ RunIdle
    /\ run = 1
    /\ prev_result = None
    /\ viz_data = <<>>
    /\ viz_out = None
    /\ NoCreationCall
    /\ NoWalk

CallGetReleases ==
    /\ pc = "query"
    /\ q_result' = Some(get_releases_for_version(Val(q_version)))
    /\ pc' = "queried"
    /\ UNCHANGED <<upstream_vars, clock, branches, temp_dir, repo_path,
                   dir_exists, dir_created, dir_removed, max_workers, futures,
                   yielded, release_data, error, run, prev_result, q_version,
                   viz_data, viz_out, creation_vars, walk_vars>>

SpecReleases == InitReleases /\ [][CallGetReleases]_vars

\* ---------------------------------- generate_visualization: the day labels
DateFields(r) ==
    {r.branch_creation, r.first_release, r.last_release, r.last_commit}

\* all_dates, as the set of its values
all_dates(data) ==
    {Val(d) : d \in {x \in UNION {DateFields(data[k]) : k \in 1..Len(data)} :
                        IsSome(x)}}

SetMin(S) == CHOOSE x \in S : \A y \in S : x <= y
SetMax(S) == CHOOSE x \in S : \A y \in S : x >= y

\* x coordinate of a date (rounded down to a pixel); None for None
normalize_date(date, min_date, date_range) ==
    IF date = None THEN None
    ELSE Some((((Val(date) - min_date) * (1480 - 200)) \div date_range) + 200)

\* truth value of an x coordinate in `if branch_created_x and last_commit_x`
Truthy(x) == IsSome(x) /\ Val(x) # 0

\* (end_date - start_date).days
days_between_swapped(start_date, end_date) ==
    IF start_date = None \/ end_date = None THEN None
    ELSE Some((Val(start_date) - Val(end_date)) \div TicksPerDay)

days_between(start_date, end_date) ==
    IF start_date = None \/ end_date = None THEN None
    ELSE Some((Val(end_date) - Val(start_date)) \div TicksPerDay)

\* the three "<days>d" labels drawn on the row of one record
DayLabels(r, min_date, date_range) ==
    LET branch_created_x == normalize_date(r.branch_creation, min_date, date_range)
        first_release_x == normalize_date(r.first_release, min_date, date_range)
        last_release_x == normalize_date(r.last_release, min_date, date_range)
        last_commit_x == normalize_date(r.last_commit, min_date, date_range)
        data_end == IF Truthy(first_release_x) THEN r.first_release
                    ELSE r.last_commit
    IN IF Truthy(branch_created_x) /\ Truthy(last_commit_x)
       THEN [pre |-> days_between(r.branch_creation, data_end),
             live |-> IF Truthy(first_release_x) /\ Truthy(last_release_x)
                      THEN days_between(r.first_release, r.last_release)
                      ELSE None,
             maint |-> IF Truthy(last_release_x) /\ Truthy(last_commit_x)
                       THEN days_between(r.last_release, r.last_commit)
                       ELSE None]
       ELSE [pre |-> None, live |-> None, maint |-> None]

\* min() of an empty list is a ValueError; a zero date range is a
\* ZeroDivisionError at the first date that is normalized
VizRaises(data) ==
    \/ all_dates(data) = {}
    \/ SetMax(all_dates(data)) = SetMin(all_dates(data))

\* The records generate_timeline_data hands over: creation and last commit
\* are always dates (get_branch_creation_date always returns one), the two
\* release dates are both None or the earliest and the latest of the matches.
VizTicks == {0, 3, 10 * TicksPerDay}
VizRecords ==
    {r \in [version : {V_2_9},
            branch_creation : {Some(d) : d \in VizTicks},
            first_release : {None} \cup {Some(d) : d \in VizTicks},
            last_release : {None} \cup {Some(d) : d \in VizTicks},
            last_commit : {Some(d) : d \in VizTicks}] :
        /\ IsSome(r.first_release) <=> IsSome(r.last_release)
        /\ IsSome(r.first_release) =>
               Val(r.first_release) <= Val(r.last_release)}

InitViz ==
    /\ viz_data \in UNION {[1..k -> VizRecords] : k \in 1..MaxVizRecords}
    /\ viz_out = None
    /\ q_version = None
    /\ q_result = None
    /\ repo_branches = <<>>
    /\ upstream = [n \in BranchNames |-> AllOk]
    /\ registry = MainRegistry
    /\ local_mirror = TRUE
    /\ clock = Clock0
    /\ pc = "viz"
    /\ RunIdle
    /\ run = 1
    /\ prev_result = None
    /\ NoCreationCall
    /\ NoWalk

generate_visualization ==
    /\ pc = "viz"
    /\ IF VizRaises(viz_data)
       THEN pc' = "viz_raised" /\ UNCHANGED viz_out
       ELSE /\ pc' = "drawn"
            /\ viz_out' = Some(
                   LET lo == SetMin(all_dates(viz_data))
                       range == SetMax(all_dates(viz_data)) - lo
                   IN [k \in 1..Len(viz_data) |->
                          DayLabels(viz_data[k], lo, range)])
    /\ UNCHANGED <<upstream_vars, clock, branches, temp_dir, repo_path,
                   dir_exists, dir_created, dir_removed, max_workers, futures,
                   yielded, release_data, error, run, prev_result, q_version,
                   q_result, viz_data, creation_vars, walk_vars>>

SpecViz == InitViz /\ [][generate_visualization]_vars

\* ------------------------------- get_branch_creation_date, called directly
\* The function is called for one release branch with any repo_path (not
\* given, the local mirror or a temporary clone), whether or not the
\* repository at that path is on disk, under every answer of the upstream.
ReleaseBranchNames == {n \in BranchNames : IsReleaseBranch(n)}

InitCreation ==
    /\ c_branch \in {Some(n) : n \in ReleaseBranchNames}
    /\ c_path \in {"none", "local", "temp"}
    /\ c_result = None
    /\ upstream \in {[n \in BranchNames |->
                         IF n = Val(c_branch) THEN c ELSE AllOk] :
                     c \in Conditions}
    /\ local_mirror \in BOOLEAN
    /\ dir_exists \in BOOLEAN
    /\ temp_dir = dir_exists
    /\ dir_created = (IF dir_exists THEN 1 ELSE 0)
    /\ clock \in Clock0..(Clock0 + MaxClockAdvance)
    /\ repo_branches = <<>>
    /\ registry = MainRegistry
    /\ pc = "creation"
    /\ branches = <<>>
    /\ repo_path = "none"
    /\ dir_removed = 0
    /\ max_workers = 0
    /\ futures = <<>>
    /\ yielded = {}
    /\ release_data = <<>>
    /\ error = "none"
    /\ run = 1
    /\ prev_result = None
    /\ q_version = None
    /\ q_result = None
    /\ viz_data = <<>>
    /\ viz_out = None
    /\ NoWalk

CallCreationDate ==
    /\ pc = "creation"
    /\ c_result' = get_branch_creation_date(Val(c_branch), c_path)
    /\ pc' = "created"
    /\ UNCHANGED <<upstream_vars, clock, branches, temp_dir, repo_path,
                   dir_exists, dir_created, dir_removed, max_workers, futures,
                   yielded, release_data, error, run, prev_result, q_version,
                   q_result, viz_data, viz_out, c_branch, c_path, walk_vars>>

SpecCreation == InitCreation /\ [][CallCreationDate]_vars

\* ------------------------------------------- gen.py: the commit history walk
\* commit shas of the repository
Shas == {"a", "b", "c"}

\* A build of the pipeline: its commit, and whether do() counts it (a cron or
\* manual nightly build whose image job passed). Builds are listed newest
\* first; the date of a build is its day, counted from the oldest listed one.
BuildLists ==
    UNION {{[k \in 1..n |->
                [date |-> n - k + 1, commit |-> c[k], counted |-> p[k]]] :
               c \in [1..n -> Shas], p \in [1..n -> BOOLEAN]} :
           n \in 0..MaxBuilds}

\* do(builds): appends (date, commit) for every counted build whose commit
\* differs from the commit of the last tuple appended
RECURSIVE do(_, _)
do(body, nightly) ==
    IF body = <<>> THEN nightly
    ELSE LET build == Head(body)
         IN IF ~build.counted
            THEN do(Tail(body), nightly)
            ELSE IF Len(nightly) > 0 /\ build.commit = nightly[Len(nightly)][2]
            THEN do(Tail(body), nightly)
            ELSE do(Tail(body), Append(nightly, <<build.date, build.commit>>))

\* nightly_builds[idx] of Python, idx >= 0: an IndexError unless idx < len
ReadOk(idx) == idx >= 0 /\ idx < Len(nightly_builds)
At(idx) == nightly_builds[idx + 1]

InitWalk ==
    /\ builds \in BuildLists
    /\ commit_history \in DistinctSeqs(Shas, MaxHistory)
    /\ nightly_builds = <<>>
    /\ nightly_i = 0
    /\ walk_pos = 0
    /\ walk_reads = {}
    /\ pc = "gen_start"
    /\ repo_branches = <<>>
    /\ upstream = [n \in BranchNames |-> AllOk]
    /\ registry = MainRegistry
    /\ local_mirror = TRUE
    /\ clock = Clock0
    /\ RunIdle
    /\ run = 1
    /\ prev_result = None
    /\ q_version = None
    /\ q_result = None
    /\ viz_data = <<>>
    /\ viz_out = None
    /\ NoCreationCall

\* the pages of builds are fetched and passed to do(); nightly_builds[-1] of
\* the loop condition is an IndexError when no build was counted; then i = 0
CollectBuilds ==
    /\ pc = "gen_start"
    /\ nightly_builds' = do(builds, <<>>)
    /\ pc' = IF nightly_builds' = <<>> THEN "gen_raised" ELSE "walk"
    /\ nightly_i' = 0
    /\ UNCHANGED <<upstream_vars, clock, branches, temp_dir, repo_path,
                   dir_exists, dir_created, dir_removed, max_workers, futures,
                   yielded, release_data, error, run, prev_result, q_version,
                   q_result, viz_data, viz_out, creation_vars, builds,
                   commit_history, walk_pos, walk_reads>>

\* a loop that never takes the break
WalkStops_never(idx) == FALSE

\* `if i == len(nightly_builds): break`
WalkStops(idx) == idx = Len(nightly_builds)

\* one iteration of `for commit in risingwave.get_commits()`
WalkStep ==
    /\ pc = "walk"
    /\ walk_pos < Len(commit_history)
    /\ walk_pos' = walk_pos + 1
    /\ LET sha == commit_history[walk_pos + 1]
       IN IF ~ReadOk(nightly_i)
          THEN /\ walk_reads' = walk_reads \cup {nightly_i}
               /\ pc' = "walk_raised"
               /\ UNCHANGED nightly_i
          ELSE IF sha # At(nightly_i)[2]
          THEN /\ walk_reads' = walk_reads \cup {nightly_i}
               /\ pc' = IF WalkStops(nightly_i) THEN "walk_break" ELSE "walk"
               /\ UNCHANGED nightly_i
          ELSE IF nightly_i # Len(nightly_builds) - 1 /\ ~ReadOk(nightly_i + 1)
          THEN /\ walk_reads' = walk_reads \cup {nightly_i, nightly_i + 1}
               /\ pc' = "walk_raised"
               /\ UNCHANGED nightly_i
          ELSE /\ walk_reads' =
                      walk_reads \cup {nightly_i} \cup
                      (IF nightly_i # Len(nightly_builds) - 1
                       THEN {nightly_i + 1} ELSE {})
               /\ nightly_i' = nightly_i + 1
               /\ pc' = IF WalkStops(nightly_i + 1) THEN "walk_break"
                        ELSE "walk"
    /\ UNCHANGED <<upstream_vars, clock, branches, temp_dir, repo_path,
                   dir_exists, dir_created, dir_removed, max_workers, futures,
                   yielded, release_data, error, run, prev_result, q_version,
                   q_result, viz_data, viz_out, creation_vars, builds,
                   commit_history, nightly_builds>>

\* get_commits() has no further commit: the loop ends without the break
WalkExhausted ==
    /\ pc = "walk"
    /\ walk_pos = Len(commit_history)
    /\ pc' = "walk_end"
    /\ UNCHANGED <<upstream_vars, clock, branches, temp_dir, repo_path,
                   dir_exists, dir_created, dir_removed, max_workers, futures,
                   yielded, release_data, error, run, prev_result, q_version,
                   q_result, viz_data, viz_out, creation_vars, walk_vars>>

NextWalk ==
    \/ CollectBuilds
    \/ WalkStep
    \/ WalkExhausted

SpecWalk == InitWalk /\ [][NextWalk]_vars

\* =================================================================== claims
Exited == pc \in {"returned", "raised"}
InfraErrors == {"list", "clone", "fetch", "pool", "interrupt"}
KeyOf(k) == VersionKey(release_data[k].version)
RecordsOf(version) ==
    {k \in 1..Len(release_data) : release_data[k].version = version}
WorkerFails(name) == ~upstream[name].rel_ok \/ ~upstream[name].head_ok

\* C1: when generate_timeline_data returns, every branch of
\* get_release_branches has exactly one record with its version in the
\* returned list, whatever failed in the workers.
C1_OneRecordPerBranch ==
    pc = "returned" =>
        \A i \in 1..Len(branches) :
            Cardinality(RecordsOf(branches[i][1])) = 1

\* C2 as stated: the returned list is strictly ascending by the version read
\* as a tuple of integers.
C2_StrictlyAscending ==
    pc = "returned" =>
        \A k \in 1..(Len(release_data) - 1) : ListLess(KeyOf(k), KeyOf(k + 1))

\* C2 as amended: the returned list is ascending by the version tuple (no
\* record's tuple is greater than its successor's), and strictly ascending
\* when no two release branches read as the same tuple of integers.
DistinctTuples ==
    \A i, j \in 1..Len(branches) :
        i # j => VersionKey(branches[i][1]) # VersionKey(branches[j][1])
C2_Ascending ==
    pc = "returned" =>
        /\ \A k \in 1..(Len(release_data) - 1) :
               ~ListLess(KeyOf(k + 1), KeyOf(k))
        /\ DistinctTuples =>
               \A k \in 1..(Len(release_data) - 1) :
                   ListLess(KeyOf(k), KeyOf(k + 1))

\* C2 witness: the API listed release-2.10 before release-2.9, both records
\* came back, and the returned list has 2.9 before 2.10.
C2_Witness ==
    /\ pc = "returned"
    /\ repo_branches = <<S_release \o V_2_10, S_release \o V_2_9>>
    /\ Len(release_data) = 2
    /\ release_data[1].version = V_2_9
    /\ release_data[2].version = V_2_10

\* C3: a failure of one branch (merge-base lookup, or an exception in its
\* worker) does not make the run raise, does not stop any other worker from
\* finishing or being collected, and every branch whose own worker did not
\* raise has, in the returned list, the record that its own upstream data
\* alone determine.
ExpectedCreation(name) ==
    IF upstream[name].git_ok THEN Some(MergeBaseDate(name))
    ELSE IF ~upstream[name].api_ok
         THEN Some(clock - FallbackOffsetDays * TicksPerDay)
    ELSE IF upstream[name].has_commits THEN Some(OldestCommitDate(name))
    ELSE Some(HeadCommitDate(name))
MatchingDates(version) ==
    {registry[k].created_at : k \in
        {j \in 1..Len(registry) : ReleaseMatches(version, registry[j].tag_name)}}
IsOwnRecord(r, bt) ==
    /\ r.version = bt[1]
    /\ r.branch_name = bt[2]
    /\ r.branch_creation = ExpectedCreation(bt[2])
    /\ r.last_commit = Some(HeadCommitDate(bt[2]))
    /\ IF MatchingDates(bt[1]) = {}
       THEN r.first_release = None /\ r.last_release = None
       ELSE /\ IsSome(r.first_release) /\ IsSome(r.last_release)
            /\ \A d \in MatchingDates(bt[1]) :
                   Val(r.first_release) <= d /\ d <= Val(r.last_release)
            /\ Val(r.first_release) \in MatchingDates(bt[1])
            /\ Val(r.last_release) \in MatchingDates(bt[1])
C3_FaultIsolation ==
    /\ error \in InfraErrors \cup {"none"}
    /\ (pc \in {"collect", "shutdown"} /\ ~PoolDrained) =>
           \/ Running # {}
           \/ \E i \in 1..Len(futures) : CanStart(i)
    /\ (pc = "collect" /\ PoolDrained /\ yielded # 1..Len(futures)) =>
           Finished \ yielded # {}
    /\ pc = "returned" =>
           /\ yielded = 1..Len(branches)
           /\ \A i \in 1..Len(branches) :
                  ~WorkerFails(branches[i][2]) =>
                      /\ Cardinality({k \in 1..Len(release_data) :
                             release_data[k].branch_name = branches[i][2]}) = 1
                      /\ \E k \in 1..Len(release_data) :
                             IsOwnRecord(release_data[k], branches[i])

\* C3 witness: a run returned although one worker raised and another branch
\* lost its merge-base, with the record of a healthy branch in the list.
C3_Witness ==
    /\ pc = "returned"
    /\ \E i, j \in 1..Len(branches) :
           /\ i # j
           /\ futures[i].raised
           /\ upstream[branches[j][2]] = AllOk
           /\ \E k \in 1..Len(release_data) :
                  IsOwnRecord(release_data[k], branches[j])

\* C4: after a failed merge-base resolution the branch's record is there and
\* its creation date is absent or marked as estimated.
MarkedEstimated(r) == "estimated" \in DOMAIN r
C4_EstimateDistinguishable ==
    pc = "returned" =>
        \A i \in 1..Len(branches) :
            ~upstream[branches[i][2]].git_ok =>
                \E k \in 1..Len(release_data) :
                    /\ release_data[k].branch_name = branches[i][2]
                    /\ \/ release_data[k].branch_creation = None
                       \/ MarkedEstimated(release_data[k])

\* C5: a temporary directory created by the run is gone when the run exits,
\* by return or by exception; with a local mirror nothing is created or
\* removed.
C5_TempDirRemoved ==
    /\ Exited => ~dir_exists /\ dir_removed = dir_created
    /\ dir_removed <= dir_created
    /\ local_mirror => dir_created = 0 /\ dir_removed = 0
    /\ (~local_mirror /\ pc \in {"returned"}) => dir_created = 1

\* C5 witness: the run left by an exception raised while collecting, after a
\* worker had failed, and the directory it created is removed.
C5_Witness ==
    /\ pc = "raised"
    /\ error = "interrupt"
    /\ dir_created = 1
    /\ dir_removed = 1
    /\ ~dir_exists
    /\ \E i \in 1..Len(futures) : futures[i].raised

\* C6: a failed clone or fetch aborts the run: nothing is submitted, nothing
\* is returned, and the error leaves only after the directory is removed.
C6_MirrorFailureAborts ==
    error \in {"clone", "fetch"} =>
        /\ pc \in {"finally", "raised"}
        /\ futures = <<>>
        /\ max_workers = 0
        /\ release_data = <<>>
        /\ pc = "raised" => ~dir_exists /\ dir_removed = 1

\* C6 witness: the fetch failed and the error has left the function.
C6_Witness ==
    /\ pc = "raised"
    /\ error = "fetch"
    /\ Len(branches) > 0
    /\ dir_created = 1
    /\ ~dir_exists

\* C10: a second run against the same upstream state returns the same list
\* of records as the first.
C10_Idempotent ==
    (run = 2 /\ pc = "returned") => Some(release_data) = prev_result

IsFormalReleaseOf(version, tag_name) ==
    /\ Len(tag_name) >= Len(version) + 2
    /\ tag_name[1] = "v"
    /\ SubSeq(tag_name, 2, Len(version) + 1) = version
    /\ tag_name[Len(version) + 2] = "."
    /\ \A i \in 1..(Len(tag_name) - 1) :
           ~(tag_name[i] = "r" /\ tag_name[i + 1] = "c")
    /\ \A i \in 1..(Len(tag_name) - 10) :
           SubSeq(tag_name, i, i + 10) # S_single_node
TagsOf(releases) == {releases[k].tag_name : k \in 1..Len(releases)}
C9_FormalReleases ==
    pc = "queried" =>
        LET res == Val(q_result)
            version == Val(q_version)
            want == {k \in 1..Len(registry) :
                        IsFormalReleaseOf(version, registry[k].tag_name)}
        IN /\ Range(res) = {registry[k] : k \in want}
           /\ Len(res) = Cardinality(want)
           /\ \A k \in 1..(Len(res) - 1) :
                  res[k].created_at <= res[k + 1].created_at
           /\ (version = V_2_1 /\ TagsOf(registry) =
                   {T_2_1_0, T_2_1_0_rc1, T_2_1_0_single_node, T_2_1_1})
                  => TagsOf(res) = {T_2_1_0, T_2_1_1}
           /\ version = V_2_1 => T_2_10_0 \notin TagsOf(res)

\* C9 witness: the four tags of the example plus none other, queried for 2.1,
\* listed newest first, give v2.1.0 then v2.1.1.
C9_Witness ==
    /\ pc = "queried"
    /\ q_version = Some(V_2_1)
    /\ TagsOf(registry) = {T_2_1_0, T_2_1_0_rc1, T_2_1_0_single_node, T_2_1_1}
    /\ \E i, j \in 1..Len(registry) :
           /\ registry[i].tag_name = T_2_1_1 /\ registry[i].created_at = 2
           /\ registry[j].tag_name = T_2_1_0 /\ registry[j].created_at = 1
           /\ i < j
    /\ Len(Val(q_result)) = 2
    /\ Val(q_result)[1].tag_name = T_2_1_0
    /\ Val(q_result)[2].tag_name = T_2_1_1

\* C8 as stated: each of the three day counts of a record is drawn if and only
\* if both endpoint dates of its span are present, and then equals the
\* whole-day difference end minus start.
WholeDays(start, end) == (Val(end) - Val(start)) \div TicksPerDay
SpanAsStated(label, start, end) ==
    /\ IsSome(label) <=> (IsSome(start) /\ IsSome(end))
    /\ IsSome(label) => Val(label) = WholeDays(start, end)
C8_SpansIffEndpoints ==
    pc = "drawn" =>
        \A k \in 1..Len(viz_data) :
            LET r == viz_data[k]
                out == Val(viz_out)[k]
            IN /\ SpanAsStated(out.pre, r.branch_creation, r.first_release)
               /\ SpanAsStated(out.live, r.first_release, r.last_release)
               /\ SpanAsStated(out.maint, r.last_release, r.last_commit)

\* C8 as amended: for a record with a creation and a last-commit date (every
\* record of generate_timeline_data has both; without them no count is drawn)
\* the first count is always drawn and runs from creation to the first
\* release, or to the last commit when there is no first release; the second
\* is drawn iff first and last release are present, the third iff the last
\* release is present; each equals the whole-day difference end minus start,
\* rounded down.
C8_SpansAsDrawn ==
    pc = "drawn" =>
        \A k \in 1..Len(viz_data) :
            LET r == viz_data[k]
                out == Val(viz_out)[k]
                row == IsSome(r.branch_creation) /\ IsSome(r.last_commit)
                pre_end == IF IsSome(r.first_release) THEN r.first_release
                           ELSE r.last_commit
            IN /\ IsSome(out.pre) <=> row
               /\ IsSome(out.pre) =>
                      Val(out.pre) = WholeDays(r.branch_creation, pre_end)
               /\ IsSome(out.live) <=>
                      (row /\ IsSome(r.first_release) /\ IsSome(r.last_release))
               /\ IsSome(out.live) =>
                      Val(out.live) = WholeDays(r.first_release, r.last_release)
               /\ IsSome(out.maint) <=> (row /\ IsSome(r.last_release))
               /\ IsSome(out.maint) =>
                      Val(out.maint) = WholeDays(r.last_release, r.last_commit)

\* C8 witness: creation on day 0 and first release on day 10 give 10, and a
\* span that is not a whole number of days is rounded down.
C8_Witness ==
    /\ pc = "drawn"
    /\ viz_data[1].branch_creation = Some(0)
    /\ viz_data[1].first_release = Some(10 * TicksPerDay)
    /\ viz_data[1].last_release = Some(10 * TicksPerDay)
    /\ viz_data[1].last_commit = Some(3)
    /\ Len(viz_data) = 2
    /\ viz_data[2].first_release = None
    /\ viz_data[2].branch_creation = Some(0)
    /\ viz_data[2].last_commit = Some(3)
    /\ Val(viz_out)[2] = [pre |-> Some(3 \div TicksPerDay), live |-> None,
                          maint |-> None]
    /\ Val(viz_out)[1].pre = Some(10)
    /\ Val(viz_out)[1].live = Some(0)
    /\ IsSome(Val(viz_out)[1].maint)
    /\ Val(Val(viz_out)[1].maint) < 0

\* ----------------------------------------------------------------- C11
FallbackDate == clock - FallbackOffsetDays * TicksPerDay
CreationGitOk == GitLookupOk(Val(c_branch), c_path)
CreationApiOk == upstream[Val(c_branch)].api_ok
CreationHasCommits == upstream[Val(c_branch)].has_commits

\* C11 as stated: get_branch_creation_date always returns a date, from one of
\* three sources tried in order: the merge-base commit date when the git
\* lookup succeeds, otherwise the date of the oldest commit the API lists,
\* otherwise (the API fallback fails) the current time minus 30 days.
C11_ThreeSources ==
    pc = "created" =>
        /\ IsSome(c_result)
        /\ CreationGitOk => c_result = Some(MergeBaseDate(Val(c_branch)))
        /\ (~CreationGitOk /\ CreationApiOk) =>
               c_result = Some(OldestCommitDate(Val(c_branch)))
        /\ (~CreationGitOk /\ ~CreationApiOk) =>
               c_result = Some(FallbackDate)

\* C11 amended: get_branch_creation_date always returns a date, from one of
\* four sources tried in a fixed order: the merge-base commit date when the
\* git lookup succeeds; otherwise, when the API answers, the date of the
\* oldest commit it lists or, when it lists none, the date of the branch head
\* commit; otherwise the current time minus 30 days. A later source is used
\* only if every earlier one failed.
C11_SourceOrder ==
    pc = "created" =>
        /\ IsSome(c_result)
        /\ CreationGitOk => c_result = Some(MergeBaseDate(Val(c_branch)))
        /\ (~CreationGitOk /\ CreationApiOk /\ CreationHasCommits) =>
               c_result = Some(OldestCommitDate(Val(c_branch)))
        /\ (~CreationGitOk /\ CreationApiOk /\ ~CreationHasCommits) =>
               c_result = Some(HeadCommitDate(Val(c_branch)))
        /\ (~CreationGitOk /\ ~CreationApiOk) =>
               c_result = Some(FallbackDate)
        /\ c_result = Some(OldestCommitDate(Val(c_branch))) => ~CreationGitOk
        /\ c_result = Some(HeadCommitDate(Val(c_branch))) =>
               ~CreationGitOk /\ ~CreationHasCommits
        /\ c_result = Some(FallbackDate) =>
               ~CreationGitOk /\ ~CreationApiOk

\* the git lookup failed, the API answered with an empty commit list, and the
\* date of the branch head commit was returned
C11_Witness ==
    /\ pc = "created"
    /\ ~CreationGitOk
    /\ CreationApiOk
    /\ ~CreationHasCommits
    /\ c_result = Some(HeadCommitDate(Val(c_branch)))

\* ----------------------------------------------------------------- C12
Unfinished == {i \in 1..Len(futures) : futures[i].state # "finished"}

\* C12: the temporary mirror is never removed while a per-branch worker is
\* still queued or running, also when an exception is raised while the results
\* are collected: once the directory has been removed every submitted worker
\* has finished, an unfinished worker of a run on the temporary mirror still
\* has the directory on disk, and every worker whose branch has a merge-base
\* found it in the mirror.
C12_MirrorOutlivesWorkers ==
    /\ dir_removed > 0 => Unfinished = {}
    /\ (Unfinished # {} /\ repo_path = "temp") => dir_exists
    /\ \A i \in Finished :
           (/\ repo_path = "temp"
            /\ ~futures[i].raised
            /\ upstream[branches[i][2]].git_ok)
               => Val(futures[i].result).branch_creation =
                      Some(MergeBaseDate(branches[i][2]))

\* an exception reached the main thread before any result was collected; the
\* function left with it after every worker had finished and read the
\* mirror, and the directory was removed
C12_Witness ==
    /\ pc = "raised"
    /\ error = "interrupt"
    /\ repo_path = "temp"
    /\ dir_removed = 1
    /\ ~dir_exists
    /\ Len(futures) = Len(branches)
    /\ Len(futures) >= 2
    /\ yielded = {}
    /\ Unfinished = {}
    /\ \E i \in Finished :
           /\ ~futures[i].raised
           /\ Val(futures[i].result).branch_creation =
                  Some(MergeBaseDate(branches[i][2]))

\* ----------------------------------------------------------------- C13
WalkStarted == pc \in {"walk", "walk_break", "walk_end", "walk_raised"}

\* the walk is at a commit equal to nightly_builds[i]
AtNightlyCommit ==
    /\ pc = "walk"
    /\ walk_pos < Len(commit_history)
    /\ nightly_i < Len(nightly_builds)
    /\ commit_history[walk_pos + 1] = nightly_builds[nightly_i + 1][2]

\* the reads of the walk stay inside a non-empty nightly_builds, and the walk
\* stops right after the commit at which i reaches len(nightly_builds)
WalkInRange ==
    WalkStarted =>
        /\ Len(nightly_builds) > 0
        /\ pc # "walk_raised"
        /\ \A r \in walk_reads : 0 <= r /\ r < Len(nightly_builds)
        /\ 0 <= nightly_i /\ nightly_i <= Len(nightly_builds)
        /\ pc = "walk" => nightly_i < Len(nightly_builds)
        /\ pc = "walk_end" =>
               nightly_i < Len(nightly_builds)
               /\ walk_pos = Len(commit_history)
        /\ pc = "walk_break" =>
               /\ nightly_i = Len(nightly_builds)
               /\ walk_pos >= 1
               /\ commit_history[walk_pos] =
                      nightly_builds[Len(nightly_builds)][2]

\* i changes only by one, upwards, at a commit equal to nightly_builds[i]
WalkAdvances ==
    (WalkStarted /\ nightly_i' # nightly_i) =>
        (nightly_i' = nightly_i + 1 /\ AtNightlyCommit)

\* C13: in the commit walk of gen.py over a non-empty nightly_builds, every
\* read of nightly_builds is at an index i with 0 <= i < len(nightly_builds);
\* i only increases, by one, when the current commit equals nightly_builds[i];
\* and the walk stops right after the commit at which i reaches
\* len(nightly_builds), for every history and every list of builds, also when
\* a nightly commit never appears in the history.
C13_ReadsInRange == [](WalkInRange) /\ [][WalkAdvances]_vars

\* the walk ended by the break, having read the last entry of a list of two or
\* more nightly builds
C13_Witness ==
    /\ pc = "walk_break"
    /\ Len(nightly_builds) >= 2
    /\ nightly_i = Len(nightly_builds)
    /\ (Len(nightly_builds) - 1) \in walk_reads
    /\ walk_pos < Len(commit_history)

====
